---- MODULE Spec2Model ----
(***************************************************************************)
(* Chemical reaction checker: the resolution pipeline checkReaction        *)
(* (services/chemicalService.ts), its markdown interpreter                 *)
(* parseMarkdownResponse, and the history kept by handleCheck (App.tsx).   *)
(*                                                                         *)
(* A JavaScript string is a sequence of one-character strings, so that     *)
(* trim, toLowerCase, includes, split and the regular expressions of the   *)
(* source are computed character by character.                             *)
(***************************************************************************)
EXTENDS Integers, Sequences, FiniteSets, TLC

VARIABLES
  build,        \* which copy of the service is built: "services" or "part_000"
  pc,           \* position of the one checkReaction invocation of Spec
  input1,       \* its first argument, as typed
  input2,       \* its second argument, as typed
  fetches,      \* number of fetch() calls issued by this invocation
  ruleLookups,  \* number of REACTION_RULES.find scans made by this invocation
  promise,      \* "none" | "pending" | "fulfilled" | "rejected"
  returned,     \* the ReactionResult the promise resolved to (NoResult before)
  payload,      \* what the backend answered to this invocation (ghost)
  clock,        \* Date.now()
  chem1,        \* App state: first input field
  chem2,        \* App state: second input field
  result,       \* App state: result shown
  history,      \* App state: history list
  isLoading,    \* App state
  error,        \* App state: error message shown, "" for null
  inflight,     \* handleCheck invocations awaiting checkReaction
  started,      \* number of handleCheck invocations that passed the guard
  completed     \* results in the order their checks completed (ghost)

vars == <<build, pc, input1, input2, fetches, ruleLookups, promise, returned,
          payload, clock, chem1, chem2, result, history, isLoading, error,
          inflight, started, completed>>

pipeVars == <<pc, input1, input2, fetches, ruleLookups, promise, returned, payload>>
appVars == <<chem1, chem2, result, history, isLoading, error, inflight, started, completed>>

----------------------------------------------------------------------------
(* JavaScript strings                                                      *)

UpperCase == <<"A","B","C","D","E","F","G","H","I","J","K","L","M","N","O","P","Q","R","S","T","U","V","W","X","Y","Z">>
LowerCase == <<"a","b","c","d","e","f","g","h","i","j","k","l","m","n","o","p","q","r","s","t","u","v","w","x","y","z">>
Digits == <<"0","1","2","3","4","5","6","7","8","9">>

IsSpace(c) == c \in {" ", "\n", "\t"}

UpperSet == {UpperCase[i] : i \in 1..Len(UpperCase)}
LowerOf == [c \in UpperSet |-> LowerCase[CHOOSE i \in 1..Len(UpperCase) : UpperCase[i] = c]]
DigitSet == {Digits[i] : i \in 1..Len(Digits)}

LowerChar(c) == IF c \in UpperSet THEN LowerOf[c] ELSE c

IsDigit(c) == c \in DigitSet

toLowerCase(s) == [i \in 1..Len(s) |-> LowerChar(s[i])]

\* s.substring(i) with a 1-based i
From(s, i) == SubSeq(s, i, Len(s))

trim(s) ==
  IF \A i \in 1..Len(s) : IsSpace(s[i]) THEN <<>>
  ELSE LET a == CHOOSE i \in 1..Len(s) : ~IsSpace(s[i]) /\ \A j \in 1..(i-1) : IsSpace(s[j])
           b == CHOOSE i \in 1..Len(s) : ~IsSpace(s[i]) /\ \A j \in (i+1)..Len(s) : IsSpace(s[j])
       IN SubSeq(s, a, b)

StartsWithAt(s, p, i) ==
  /\ i >= 1
  /\ i + Len(p) - 1 <= Len(s)
  /\ \A k \in 1..Len(p) : s[i + k - 1] = p[k]

includes(s, p) == \E i \in 1..(Len(s) - Len(p) + 1) : StartsWithAt(s, p, i)

\* least index >= from where p occurs in s, 0 when it does not
IndexFrom(s, p, from) ==
  IF \E i \in from..(Len(s) - Len(p) + 1) : StartsWithAt(s, p, i)
  THEN CHOOSE i \in from..(Len(s) - Len(p) + 1) :
         /\ StartsWithAt(s, p, i)
         /\ \A j \in from..(i - 1) : ~StartsWithAt(s, p, j)
  ELSE 0

\* s.split('\n')
RECURSIVE splitLines(_)
splitLines(s) ==
  LET nl == IndexFrom(s, <<"\n">>, 1)
  IN IF nl = 0 THEN <<s>>
     ELSE <<SubSeq(s, 1, nl - 1)>> \o splitLines(From(s, nl + 1))

----------------------------------------------------------------------------
(* JavaScript values: what response.json() and JSON.parse produce.  Every  *)
(* value is a record of one shape, k naming the type that is in use.       *)

Undefined == [k |-> "undefined", s |-> <<>>, n |-> 0, a |-> <<>>, f |-> <<>>]
JNull == [k |-> "null", s |-> <<>>, n |-> 0, a |-> <<>>, f |-> <<>>]
JBool(b) == [k |-> "boolean", s |-> <<>>, n |-> IF b THEN 1 ELSE 0, a |-> <<>>, f |-> <<>>]
JNum(x) == [k |-> "number", s |-> <<>>, n |-> x, a |-> <<>>, f |-> <<>>]
JStr(x) == [k |-> "string", s |-> x, n |-> 0, a |-> <<>>, f |-> <<>>]
JArr(x) == [k |-> "array", s |-> <<>>, n |-> 0, a |-> x, f |-> <<>>]
\* an object is its members in source order: <<[key |-> .., val |-> ..], ..>>
JObj(x) == [k |-> "object", s |-> <<>>, n |-> 0, a |-> <<>>, f |-> x]

\* v is undefined or null: reading a property of it throws a TypeError
Nullish(v) == v.k \in {"undefined", "null"}

\* the value of `v || other` is v exactly when v is truthy
Truthy(v) ==
  CASE v.k \in {"undefined", "null"} -> FALSE
    [] v.k = "boolean" -> v.n = 1
    [] v.k = "number" -> v.n # 0
    [] v.k = "string" -> v.s # <<>>
    [] OTHER -> TRUE

\* v.key for a v that is not nullish (a repeated key: the last member wins)
Get(v, key) ==
  IF v.k # "object" THEN Undefined
  ELSE LET hits == {i \in 1..Len(v.f) : v.f[i].key = key}
       IN IF hits = {} THEN Undefined
          ELSE v.f[CHOOSE i \in hits : \A j \in hits : j <= i].val

RECURSIVE NumToString(_)
NumToString(x) ==
  IF x < 0 THEN <<"-">> \o NumToString(0 - x)
  ELSE IF x < 10 THEN <<Digits[x + 1]>>
  ELSE NumToString(x \div 10) \o <<Digits[(x % 10) + 1]>>

\* String(v), the conversion JSON.parse applies to an argument that is no string
RECURSIVE StringOf(_)
RECURSIVE JoinFrom(_, _)
StringOf(v) ==
  CASE v.k = "undefined" -> <<"u","n","d","e","f","i","n","e","d">>
    [] v.k = "null" -> <<"n","u","l","l">>
    [] v.k = "boolean" -> IF v.n = 1 THEN <<"t","r","u","e">> ELSE <<"f","a","l","s","e">>
    [] v.k = "number" -> NumToString(v.n)
    [] v.k = "string" -> v.s
    [] v.k = "array" -> JoinFrom(v.a, 1)
    [] OTHER -> <<"[","o","b","j","e","c","t"," ","O","b","j","e","c","t","]">>

\* Array.prototype.join from element i on: nullish elements give ""
JoinFrom(a, i) ==
  IF i > Len(a) THEN <<>>
  ELSE (IF i > 1 THEN <<",">> ELSE <<>>)
       \o (IF Nullish(a[i]) THEN <<>> ELSE StringOf(a[i]))
       \o JoinFrom(a, i + 1)

----------------------------------------------------------------------------
(* JSON.parse, on the JSON texts without escapes, fractions and exponents  *)

ParseFail == [ok |-> FALSE, v |-> Undefined, next |-> 0]
ParseOk(v, next) == [ok |-> TRUE, v |-> v, next |-> next]

\* least index >= i that is past the end or holds no white space
SkipWs(s, i) ==
  LET stops == {j \in i..Len(s) : ~IsSpace(s[j])}
  IN IF stops = {} THEN (IF i > Len(s) THEN i ELSE Len(s) + 1)
     ELSE CHOOSE j \in stops : \A m \in stops : j <= m

RECURSIVE DigitsValue(_)
DigitsValue(d) ==
  IF d = <<>> THEN 0
  ELSE 10 * DigitsValue(SubSeq(d, 1, Len(d) - 1))
       + ((CHOOSE i \in 1..Len(Digits) : Digits[i] = d[Len(d)]) - 1)

ParseString(s, i) ==
  LET close == IndexFrom(s, <<"\"">>, i + 1)
      body == SubSeq(s, i + 1, close - 1)
  IN IF close = 0 THEN ParseFail
     ELSE IF \E m \in 1..Len(body) : body[m] \in {"\\", "\n", "\t"} THEN ParseFail
     ELSE ParseOk(JStr(body), close + 1)

ParseNumber(s, i) ==
  LET neg == s[i] = "-"
      p == IF neg THEN i + 1 ELSE i
      ends == {j \in p..Len(s) : \A m \in p..j : IsDigit(s[m])}
      last == IF p <= Len(s) /\ s[p] = "0" THEN p
              ELSE CHOOSE j \in ends : \A m \in ends : m <= j
      val == DigitsValue(SubSeq(s, p, last))
  IN IF ends = {} THEN ParseFail
     ELSE IF last < Len(s) /\ s[last + 1] \in {".", "e", "E"} THEN ParseFail
     ELSE ParseOk(JNum(IF neg THEN 0 - val ELSE val), last + 1)

Member(key, val) == [key |-> key, val |-> val]

RECURSIVE ParseValue(_, _)
RECURSIVE ParseElements(_, _, _)
RECURSIVE ParseMembers(_, _, _)

\* after an element: m is the index of the "," or "]" that must follow it
ElementsNext(s, acc, m) ==
  IF m > Len(s) THEN ParseFail
  ELSE IF s[m] = "," THEN ParseElements(s, m + 1, acc)
  ELSE IF s[m] = "]" THEN ParseOk(JArr(acc), m + 1)
  ELSE ParseFail

ElementsAfter(s, acc, r) ==
  IF r.ok THEN ElementsNext(s, Append(acc, r.v), SkipWs(s, r.next)) ELSE ParseFail

\* the elements of an array from index p on, acc holding those already read
ParseElements(s, p, acc) == ElementsAfter(s, acc, ParseValue(s, p))

\* after a member: m is the index of the "," or "}" that must follow it
MembersNext(s, acc, m) ==
  IF m > Len(s) THEN ParseFail
  ELSE IF s[m] = "," THEN ParseMembers(s, m + 1, acc)
  ELSE IF s[m] = "}" THEN ParseOk(JObj(acc), m + 1)
  ELSE ParseFail

MembersAfter(s, acc, name, r) ==
  IF r.ok THEN MembersNext(s, Append(acc, Member(name, r.v)), SkipWs(s, r.next))
  ELSE ParseFail

\* after a member's name: colon is the index of the ":" that must follow it
MembersValue(s, acc, name, colon) ==
  IF colon > Len(s) THEN ParseFail
  ELSE IF s[colon] # ":" THEN ParseFail
  ELSE MembersAfter(s, acc, name, ParseValue(s, colon + 1))

MembersColon(s, acc, key) ==
  IF key.ok THEN MembersValue(s, acc, key.v.s, SkipWs(s, key.next)) ELSE ParseFail

MembersKey(s, acc, q) ==
  IF q > Len(s) THEN ParseFail
  ELSE IF s[q] # "\"" THEN ParseFail
  ELSE MembersColon(s, acc, ParseString(s, q))

\* the members of an object from index p on, acc holding those already read
ParseMembers(s, p, acc) == MembersKey(s, acc, SkipWs(s, p))

\* after "[": q is the index of the next character that is no white space
ArrayAt(s, q) ==
  IF q <= Len(s) /\ s[q] = "]" THEN ParseOk(JArr(<<>>), q + 1)
  ELSE ParseElements(s, q, <<>>)

\* after "{"
ObjectAt(s, q) ==
  IF q <= Len(s) /\ s[q] = "}" THEN ParseOk(JObj(<<>>), q + 1)
  ELSE ParseMembers(s, q, <<>>)

\* the value that starts at index j, which holds no white space
ValueAt(s, j) ==
  IF j > Len(s) THEN ParseFail
  ELSE CASE s[j] = "[" -> ArrayAt(s, SkipWs(s, j + 1))
         [] s[j] = "{" -> ObjectAt(s, SkipWs(s, j + 1))
         [] s[j] = "\"" -> ParseString(s, j)
         [] s[j] = "-" \/ IsDigit(s[j]) -> ParseNumber(s, j)
         [] StartsWithAt(s, <<"n","u","l","l">>, j) -> ParseOk(JNull, j + 4)
         [] StartsWithAt(s, <<"t","r","u","e">>, j) -> ParseOk(JBool(TRUE), j + 4)
         [] StartsWithAt(s, <<"f","a","l","s","e">>, j) -> ParseOk(JBool(FALSE), j + 5)
         [] OTHER -> ParseFail

ParseValue(s, i) == ValueAt(s, SkipWs(s, i))

\* nothing but white space may follow the value
WholeText(s, r) == IF r.ok /\ SkipWs(s, r.next) > Len(s) THEN r ELSE ParseFail

\* JSON.parse(s): ok is FALSE where it throws a SyntaxError
JSONparse(s) == WholeText(s, ParseValue(s, 1))

----------------------------------------------------------------------------
(* Static data.  types.ts and constants.ts are modelled from the           *)
(* specification: the six safety levels, a table of identities and a rule  *)
(* table that holds a rule for a pair of equal ids and two rules for one   *)
(* unordered pair.                                                         *)

SafetyLevel ==
  [SAFE |-> <<"S","a","f","e">>, MILD |-> <<"M","i","l","d">>, EXOTHERMIC |-> <<"E","x","o","t","h","e","r","m","i","c">>,
   DANGEROUS |-> <<"D","a","n","g","e","r","o","u","s">>, EXTREME |-> <<"E","x","t","r","e","m","e">>, UNKNOWN |-> <<"U","n","k","n","o","w","n">>]

\* Object.values(SafetyLevel)
SafetyLevelValues == {SafetyLevel[x] : x \in DOMAIN SafetyLevel}

NoChemical == [id |-> "", name |-> <<>>, formula |-> <<>>, aliases |-> <<>>]

COMMON_CHEMICALS ==
  << [id |-> "bleach", name |-> <<"B","l","e","a","c","h">>, formula |-> <<"N","a","C","l","O">>,
      aliases |-> << <<"C","l","o","r","o","x">>, <<"s","o","d","i","u","m"," ","h","y","p","o","c","h","l","o","r","i","t","e">> >>],
     [id |-> "ammonia", name |-> <<"A","m","m","o","n","i","a">>, formula |-> <<"N","H","3">>, aliases |-> <<>>],
     [id |-> "water", name |-> <<"W","a","t","e","r">>, formula |-> <<"H","2","O">>, aliases |-> << <<"a","q","u","a">> >>] >>

REACTION_RULES ==
  << [chemicals |-> <<"bleach", "bleach">>,
      result |-> [type |-> SafetyLevel.EXTREME, title |-> JStr(<<"T","w","i","c","e">>),
                  explanation |-> JStr(<<"A"," ","r","u","l","e"," ","f","o","r"," ","o","n","e"," ","i","d",".">>),
                  recommendations |-> JArr(<<JStr(<<"N","e","v","e","r">>)>>)]],
     [chemicals |-> <<"ammonia", "bleach">>,
      result |-> [type |-> SafetyLevel.DANGEROUS, title |-> JStr(<<"C","h","l","o","r","a","m","i","n","e"," ","G","a","s">>),
                  explanation |-> JStr(<<"R","e","l","e","a","s","e","s"," ","t","o","x","i","c"," ","v","a","p","o","u","r","s",".">>),
                  recommendations |-> JArr(<<JStr(<<"D","o"," ","n","o","t"," ","m","i","x">>), JStr(<<"V","e","n","t","i","l","a","t","e">>)>>)]],
     [chemicals |-> <<"bleach", "ammonia">>,
      result |-> [type |-> SafetyLevel.MILD, title |-> JStr(<<"L","i","s","t","e","d"," ","s","e","c","o","n","d">>),
                  explanation |-> JStr(<<"N","e","v","e","r"," ","r","e","t","u","r","n","e","d",".">>),
                  recommendations |-> JArr(<<>>)]] >>

----------------------------------------------------------------------------
(* normalizeInput                                                          *)

MatchesChemical(c, sanitized) ==
  \/ toLowerCase(c.name) = sanitized
  \/ toLowerCase(c.formula) = sanitized
  \/ \E i \in 1..Len(c.aliases) : toLowerCase(c.aliases[i]) = sanitized

normalizeInput(input) ==
  LET sanitized == toLowerCase(trim(input))
      hits == {i \in 1..Len(COMMON_CHEMICALS) : MatchesChemical(COMMON_CHEMICALS[i], sanitized)}
  IN IF sanitized = <<>> THEN NoChemical
     ELSE IF hits = {} THEN NoChemical
     ELSE COMMON_CHEMICALS[CHOOSE i \in hits : \A j \in hits : i <= j]

\* the predicate of REACTION_RULES.find
RuleMatches(r, c1, c2) ==
  \/ (r.chemicals[1] = c1.id /\ r.chemicals[2] = c2.id)
  \/ (r.chemicals[1] = c2.id /\ r.chemicals[2] = c1.id)

\* index of the rule REACTION_RULES.find returns, 0 for undefined
FindRule(c1, c2) ==
  LET hits == {i \in 1..Len(REACTION_RULES) : RuleMatches(REACTION_RULES[i], c1, c2)}
  IN IF hits = {} THEN 0 ELSE CHOOSE i \in hits : \A j \in hits : i <= j

----------------------------------------------------------------------------
(* parseMarkdownResponse                                                   *)

HazardWords == { <<"u","n","s","a","f","e">>, <<"d","a","n","g","e","r">>, <<"t","o","x","i","c">>, <<"e","x","p","l","o","d","e">> }

\* the keyword scan of the lower-cased text
KeywordType(lowerText) ==
  IF \E w \in HazardWords : includes(lowerText, w) THEN SafetyLevel.DANGEROUS
  ELSE IF includes(lowerText, <<"e","x","o","t","h","e","r","m","i","c">>) THEN SafetyLevel.EXOTHERMIC
  ELSE IF includes(lowerText, <<"m","i","l","d">>) THEN SafetyLevel.MILD
  ELSE IF includes(lowerText, <<"s","a","f","e">>) THEN SafetyLevel.SAFE
  ELSE SafetyLevel.UNKNOWN

CategoryMarker == <<"*","*","c","a","t","e","g","o","r","y",":">>

NoMatch == [found |-> FALSE, index |-> 0, end |-> 0, group |-> <<>>]

\* a run of characters "." matches: no line terminator in text[a..b]
NoNewline(text, a, b) == \A m \in a..b : text[m] # "\n"

\* the indices where p occurs in s
Occurrences(s, p) == {i \in 1..(Len(s) - Len(p) + 1) : StartsWithAt(s, p, i)}

Least(S) == CHOOSE i \in S : \A j \in S : i <= j

\* /\*\*Category:\s*(.*?)\*\*/i tried at an index i where the marker stands:
\* white space, then the shortest run without a line break that "**" ends
CategoryAt(text, i) ==
  LET p == SkipWs(text, i + Len(CategoryMarker))
      q == IndexFrom(text, <<"*", "*">>, p)
  IN IF q # 0 /\ NoNewline(text, p, q - 1)
     THEN [found |-> TRUE, index |-> i, end |-> q + 1, group |-> SubSeq(text, p, q - 1)]
     ELSE NoMatch

\* text.match(/\*\*Category:\s*(.*?)\*\*/i): the leftmost match
CategoryMatch(text) ==
  LET hits == {i \in Occurrences(toLowerCase(text), CategoryMarker) : CategoryAt(text, i).found}
  IN IF hits = {} THEN NoMatch ELSE CategoryAt(text, Least(hits))

\* /\*\*Category:.*?\*\*/i tried at an index i where the marker stands
CategoryLineAt(text, i) ==
  LET p == i + Len(CategoryMarker)
      q == IndexFrom(text, <<"*", "*">>, p)
  IN IF q # 0 /\ NoNewline(text, p, q - 1)
     THEN [found |-> TRUE, index |-> i, end |-> q + 1, group |-> <<>>]
     ELSE NoMatch

\* text.replace(/\*\*Category:.*?\*\*/i, '')
RemoveCategory(text) ==
  LET hits == {i \in Occurrences(toLowerCase(text), CategoryMarker) : CategoryLineAt(text, i).found}
      m == CategoryLineAt(text, Least(hits))
  IN IF hits = {} THEN text
     ELSE SubSeq(text, 1, m.index - 1) \o From(text, m.end + 1)

HeaderNames == { <<"*","*","p","r","e","c","a","u","t","i","o","n","s">>, <<"*","*","s","a","f","e","t","y"," ","c","o","n","s","i","d","e","r","a","t","i","o","n","s">>, <<"*","*","s","a","f","e","t","y"," ","p","r","e","c","a","u","t","i","o","n","s">> }

\* the strings splitRegex matches, lower-cased
HeaderForms == {h \o c \o <<"*", "*">> : h \in HeaderNames, c \in {<<>>, <<":">>}}

\* text.match(splitRegex): index of the leftmost header, 0 for no match
HeaderIndex(text) ==
  LET hits == UNION {Occurrences(toLowerCase(text), p) : p \in HeaderForms}
  IN IF hits = {} THEN 0 ELSE Least(hits)

\* line.replace(/^(\d+\.|-|\*)\s*/, '')
StripMarker(line) ==
  LET runs == {j \in 1..Len(line) : \A m \in 1..j : IsDigit(line[m])}
      d == IF runs = {} THEN 0 ELSE CHOOSE j \in runs : \A m \in runs : m <= j
  IN IF d > 0 /\ d < Len(line) /\ line[d + 1] = "."
     THEN From(line, SkipWs(line, d + 2))
     ELSE IF line # <<>> /\ line[1] \in {"-", "*"}
     THEN From(line, SkipWs(line, 2))
     ELSE line

\* the filter of the forEach: neither empty nor naming the header
KeepsLine(clean) ==
  /\ clean # <<>>
  /\ ~includes(toLowerCase(clean), <<"p","r","e","c","a","u","t","i","o","n","s">>)
  /\ ~includes(toLowerCase(clean), <<"s","a","f","e","t","y"," ","c","o","n","s","i","d","e","r","a","t","i","o","n","s">>)

RECURSIVE CollectRecommendations(_, _)
CollectRecommendations(lines, i) ==
  IF i > Len(lines) THEN <<>>
  ELSE LET clean == trim(StripMarker(lines[i]))
       IN (IF KeepsLine(clean) THEN <<clean>> ELSE <<>>)
          \o CollectRecommendations(lines, i + 1)

RecommendationLimit == 5

\* recommendations.slice(0, 5)
Slice(a, n) == SubSeq(a, 1, IF Len(a) < n THEN Len(a) ELSE n)

MinedRecommendations(text) ==
  LET index == HeaderIndex(text)
      found == IF index = 0 THEN <<>>
               ELSE CollectRecommendations(splitLines(From(text, index)), 1)
      recs == IF found = <<>> THEN << <<"P","r","o","c","e","e","d"," ","w","i","t","h"," ","c","a","u","t","i","o","n",".">> >> ELSE found
  IN Slice(recs, RecommendationLimit)

MinedExplanation(text) ==
  LET explanation == trim(RemoveCategory(text))
      cut == HeaderIndex(explanation)
  IN IF cut > 0 THEN trim(SubSeq(explanation, 1, cut - 1)) ELSE explanation

MinedTitle(text) ==
  LET categoryMatch == CategoryMatch(text)
  IN IF categoryMatch.found THEN trim(categoryMatch.group) ELSE <<"C","h","e","m","i","c","a","l"," ","A","n","a","l","y","s","i","s">>

StrArray(a) == JArr([i \in 1..Len(a) |-> JStr(a[i])])

parseMarkdownResponse(text) ==
  JObj(<< Member(<<"t","y","p","e">>, JStr(KeywordType(toLowerCase(text)))),
          Member(<<"t","i","t","l","e">>, JStr(MinedTitle(text))),
          Member(<<"e","x","p","l","a","n","a","t","i","o","n">>, JStr(MinedExplanation(text))),
          Member(<<"r","e","c","o","m","m","e","n","d","a","t","i","o","n","s">>, StrArray(MinedRecommendations(text))) >>)

----------------------------------------------------------------------------
(* checkReaction                                                           *)

ReactionResult(type, title, explanation, recommendations, in1, in2, ts) ==
  [type |-> type, title |-> title, explanation |-> explanation,
   recommendations |-> recommendations, chemicals |-> <<in1, in2>>, timestamp |-> ts]

NoResult == ReactionResult(<<>>, Undefined, Undefined, Undefined, <<>>, <<>>, 0)

SameSubstanceTitle == <<"S","a","m","e"," ","S","u","b","s","t","a","n","c","e">>

SameSubstanceResult(c1, in1, in2, ts) ==
  ReactionResult(SafetyLevel.SAFE, JStr(SameSubstanceTitle),
    JStr(<<"Y","o","u"," ","a","r","e"," ","m","i","x","i","n","g"," ">> \o c1.name \o <<" ","w","i","t","h"," ","i","t","s","e","l","f","."," ","N","o"," ","c","h","e","m","i","c","a","l"," ","r","e","a","c","t","i","o","n"," ","w","i","l","l"," ","o","c","c","u","r",".">>),
    JArr(<<JStr(<<"M","i","x","i","n","g"," ","i","d","e","n","t","i","c","a","l"," ","s","u","b","s","t","a","n","c","e","s"," ","i","s"," ","s","a","f","e",".">>)>>), in1, in2, ts)

RuleResult(rule, in1, in2, ts) ==
  ReactionResult(rule.result.type, rule.result.title, rule.result.explanation,
    rule.result.recommendations, in1, in2, ts)

FallbackTitle == <<"A","n","a","l","y","s","i","s"," ","F","a","i","l","e","d">>

FallbackExplanation ==
  <<"T","h","e"," ","s","y","s","t","e","m"," ","c","o","u","l","d"," ","n","o","t"," ","c","o","n","f","i","d","e","n","t","l","y"," ","d","e","t","e","r","m","i","n","e"," ","t","h","e"," ","s","a","f","e","t","y"," ","o","f"," ","t","h","i","s"," ","c","o","m","b","i","n","a","t","i","o","n","."," ","P","l","e","a","s","e"," ","c","h","e","c","k"," ","i","f"," ","t","h","e"," ","b","a","c","k","e","n","d"," ","i","s"," ","r","u","n","n","i","n","g",".">>

FallbackRecommendations ==
  JArr(<< JStr(<<"D","o"," ","n","o","t"," ","m","i","x"," ","u","n","k","n","o","w","n"," ","s","u","b","s","t","a","n","c","e","s">>), JStr(<<"A","s","s","u","m","e"," ","i","t"," ","m","a","y"," ","b","e"," ","u","n","s","a","f","e">>),
          JStr(<<"R","e","f","e","r"," ","t","o"," ","o","f","f","i","c","i","a","l"," ","s","a","f","e","t","y"," ","d","o","c","u","m","e","n","t","a","t","i","o","n">>) >>)

FallbackResult(in1, in2, ts) ==
  ReactionResult(SafetyLevel.UNKNOWN, JStr(FallbackTitle), JStr(FallbackExplanation),
    FallbackRecommendations, in1, in2, ts)

\* the first if of checkReaction
IsSameSubstance(c1, c2) == c1 # NoChemical /\ c2 # NoChemical /\ c1.id = c2.id

\* the second if, reached when the first did not return
ConsultsRules(c1, c2) == ~IsSameSubstance(c1, c2) /\ c1 # NoChemical /\ c2 # NoChemical

Threw == [threw |-> TRUE, value |-> NoResult]
Returned(r) == [threw |-> FALSE, value |-> r]

DataThrew == [threw |-> TRUE, data |-> Undefined]
DataIs(d) == [threw |-> FALSE, data |-> d]

\* the catch of the inner try: parseMarkdownResponse(wrapper.result), which
\* throws a TypeError (text.toLowerCase) for a result that is no string
DataOrMarkdown(parsed, res) ==
  IF parsed.ok THEN DataIs(parsed.v)
  ELSE IF res.k = "string" THEN DataIs(parseMarkdownResponse(res.s))
  ELSE DataThrew

\* `data` of services/chemicalService.ts: JSON.parse(wrapper.result), and
\* parseMarkdownResponse(wrapper.result) when that throws
DataOfServices(res) == DataOrMarkdown(JSONparse(StringOf(res)), res)

\* `data` of the copy with the typeof guard
DataOfGuarded(res) ==
  IF res.k = "string" THEN DataOrMarkdown(JSONparse(res.s), res) ELSE DataIs(res)

DataOf(b, res) == IF b = "services" THEN DataOfServices(res) ELSE DataOfGuarded(res)

\* CoercedType without the coercion: the label of the backend is passed on
\* the label given to a data.type outside the enumeration
CoercedType(t) ==
  IF includes(toLowerCase(t.s), <<"s","a","f","e">>) THEN SafetyLevel.SAFE ELSE SafetyLevel.UNKNOWN

\* safeType: threw where data.type.toLowerCase is not a function
SafeType(t) ==
  IF t.k = "string" /\ t.s \in SafetyLevelValues THEN [threw |-> FALSE, type |-> t.s]
  ELSE IF ~Truthy(t) THEN [threw |-> FALSE, type |-> SafetyLevel.UNKNOWN]
  ELSE IF t.k # "string" THEN [threw |-> TRUE, type |-> <<>>]
  ELSE [threw |-> FALSE, type |-> CoercedType(t)]

OrElse(v, other) == IF Truthy(v) THEN v ELSE other

\* from `let safeType` to the return of the try block
Validated(data, in1, in2, ts) ==
  IF Nullish(data) THEN Threw
  ELSE LET safe == SafeType(Get(data, <<"t","y","p","e">>))
       IN IF safe.threw THEN Threw
          ELSE Returned(ReactionResult(safe.type,
                 OrElse(Get(data, <<"t","i","t","l","e">>), JStr(<<"A","n","a","l","y","s","i","s"," ","R","e","s","u","l","t">>)),
                 OrElse(Get(data, <<"e","x","p","l","a","n","a","t","i","o","n">>), JStr(<<"N","o"," ","e","x","p","l","a","n","a","t","i","o","n"," ","p","r","o","v","i","d","e","d",".">>)),
                 OrElse(Get(data, <<"r","e","c","o","m","m","e","n","d","a","t","i","o","n","s">>), JArr(<<>>)),
                 in1, in2, ts))

ValidatedData(d, in1, in2, ts) ==
  IF d.threw THEN Threw ELSE Validated(d.data, in1, in2, ts)

\* the try block from `const wrapper = await response.json()` on
Interpreted(b, wrapper, in1, in2, ts) ==
  IF Nullish(wrapper) THEN Threw
  ELSE IF Truthy(Get(wrapper, <<"e","r","r","o","r">>)) THEN Threw
  ELSE ValidatedData(DataOf(b, Get(wrapper, <<"r","e","s","u","l","t">>)), in1, in2, ts)

\* Settle without the catch: what is thrown rejects the promise
SettleWithoutCatch(attempt, in1, in2, ts) ==
  [promise |-> IF attempt.threw THEN "rejected" ELSE "fulfilled", value |-> attempt.value]

\* try { .. } catch { return the fallback }: how the promise settles
Settle(attempt, in1, in2, ts) ==
  [promise |-> "fulfilled",
   value |-> IF attempt.threw THEN FallbackResult(in1, in2, ts) ELSE attempt.value]

NoReply == [kind |-> "none", wrapper |-> Undefined]
NetworkError == [kind |-> "networkError", wrapper |-> Undefined]
HttpError == [kind |-> "httpError", wrapper |-> Undefined]
BadBody == [kind |-> "badBody", wrapper |-> Undefined]
Body(w) == [kind |-> "body", wrapper |-> w]

\* the try block under one reply of the backend
Attempt(b, reply, in1, in2, ts) ==
  IF reply.kind = "body" THEN Interpreted(b, reply.wrapper, in1, in2, ts) ELSE Threw

\* checkReaction with the rule table consulted before the same-substance test
checkReactionRulesFirst(b, in1, in2, reply, ts) ==
  LET c1 == normalizeInput(in1)
      c2 == normalizeInput(in2)
      rule == IF c1 # NoChemical /\ c2 # NoChemical THEN FindRule(c1, c2) ELSE 0
  IN IF rule # 0
     THEN [promise |-> "fulfilled", value |-> RuleResult(REACTION_RULES[rule], in1, in2, ts)]
     ELSE IF c1 # NoChemical /\ c2 # NoChemical /\ c1.id = c2.id
     THEN [promise |-> "fulfilled", value |-> SameSubstanceResult(c1, in1, in2, ts)]
     ELSE [promise |-> "fulfilled", value |-> FallbackResult(in1, in2, ts)]

\* one whole invocation: the settled promise, given how the backend would answer
checkReaction(b, in1, in2, reply, ts) ==
  LET c1 == normalizeInput(in1)
      c2 == normalizeInput(in2)
      rule == IF ConsultsRules(c1, c2) THEN FindRule(c1, c2) ELSE 0
  IN IF IsSameSubstance(c1, c2)
     THEN [promise |-> "fulfilled", value |-> SameSubstanceResult(c1, in1, in2, ts)]
     ELSE IF rule # 0
     THEN [promise |-> "fulfilled", value |-> RuleResult(REACTION_RULES[rule], in1, in2, ts)]
     ELSE Settle(Attempt(b, reply, in1, in2, ts), in1, in2, ts)

----------------------------------------------------------------------------
(* Inputs: what the user types and what the backend answers                *)

MaxLines == 1
MaxClock == 1
MaxChecks == 6
MaxInFlight == 2

Builds == {"services", "part_000"}

RawInputs ==
  { <<" ","B","l","e","a","c","h"," ">>, <<"n","a","c","l","o">>, <<"C","L","O","R","O","X">>, <<"N","H","3">>, <<"a","q","u","a">>, <<"x","y","z">>, <<" "," ">> }

TextCategories == { <<>>, <<"*","*","C","a","t","e","g","o","r","y",":"," ","A","c","i","d","-","B","a","s","e"," ","R","e","a","c","t","i","o","n","*","*","\n">>, <<"*","*","c","a","t","e","g","o","r","y",":","g","a","s"," ","*","*"," ">> }

TextBodies ==
  { <<>>, <<"M","i","l","d"," ","h","e","a","t"," ","i","s"," ","r","e","l","e","a","s","e","d",".">>, <<"N","o","t"," ","s","a","f","e",":"," ","t","o","x","i","c"," ","g","a","s",".">>, <<"S","a","f","e"," ","t","o"," ","m","i","x",".">> }

TextHeaders == { <<>>, <<"\n","*","*","P","r","e","c","a","u","t","i","o","n","s",":","*","*">>, <<"\n","*","*","S","A","F","E","T","Y"," ","c","o","n","s","i","d","e","r","a","t","i","o","n","s","*","*">> }

TextLines == { <<"\n","1","."," ","W","e","a","r"," ","g","l","o","v","e","s">>, <<"\n","*"," ","T","a","k","e"," ","p","r","e","c","a","u","t","i","o","n","s">>, <<"\n"," ","-"," ">> }

RECURSIVE LineRuns(_)
LineRuns(n) ==
  IF n = 0 THEN {<<>>}
  ELSE LET shorter == LineRuns(n - 1)
       IN shorter \cup {r \o l : r \in shorter, l \in TextLines}

ComposedTexts ==
  {c \o b \o h \o r : c \in TextCategories, b \in TextBodies, h \in TextHeaders,
                      r \in LineRuns(MaxLines)}

PickedTexts ==
  { <<"n","u","l","l">>, <<"5">>, <<"\"","G","e","n","e","r","a","l","l","y"," ","S","a","f","e","\"">>, <<"t","r","u","e">>, <<"[","]">>, <<"{","}">>,
    <<"{","\"","t","y","p","e","\"",":","\"","D","a","n","g","e","r","o","u","s","\"",",","\"","t","i","t","l","e","\"",":","\"","T","\"",",","\"","e","x","p","l","a","n","a","t","i","o","n","\"",":","\"","E","\"",",","\"","r","e","c","o","m","m","e","n","d","a","t","i","o","n","s","\"",":","[","\"","x","\"","]","}">>,
    <<"{","\"","t","y","p","e","\"",":","\"","U","n","s","a","f","e","\"",",","\"","t","i","t","l","e","\"",":","\"","T","\"",",","\"","e","x","p","l","a","n","a","t","i","o","n","\"",":","\"","E","\"","}">>,
    <<"{","\"","t","y","p","e","\"",":","\"","G","e","n","e","r","a","l","l","y"," ","S","a","f","e","\"",",","\"","t","i","t","l","e","\"",":","\"","\"","}">>,
    <<" ","{","\"","t","y","p","e","\"",":"," ","5",","," ","\"","t","i","t","l","e","\"",":"," ","\"","T","\"","}"," ">>,
    <<"{","\"","t","y","p","e","\"",":","\"","S","a","f","e","\"",",","\"","t","i","t","l","e","\"",":","[","]",",","\"","e","x","p","l","a","n","a","t","i","o","n","\"",":","[","]","}">>,
    <<"{","\"","t","y","p","e","\"",":","\"","M","i","l","d","\"",",","\"","t","y","p","e","\"",":","\"","T","o","x","i","c","\"","}">>,
    <<"{","\"","t","y","p","e","\"",":","\"","S","a","f","e","\"">>,
    <<"D","a","n","g","e","r","\n","*","*","S","a","f","e","t","y"," ","P","r","e","c","a","u","t","i","o","n","s",":","*","*","\n","-"," ","A","\n","2","."," ","B","\n","\n","*"," ","C","\n","4","."," ","D","\n","5","."," ","E","\n","6","."," ","F","\n","7","."," ","G">>,
    <<"*","*","P","r","e","c","a","u","t","i","o","n","s","*","*","\n","*","*","P","r","e","c","a","u","t","i","o","n","s",":","*","*","\n">>,
    <<"*","*","C","a","t","e","g","o","r","y",":","\n","S","a","l","t","*","*"," ","i","t"," ","m","a","y"," ","E","X","P","L","O","D","E"," ","*","*","p","r","e","c","a","u","t","i","o","n","s",":","*","*"," ","n","o","w","\n","1","2",".","R","u","n">>,
    <<"e","x","o","t","h","e","r","m","i","c"," ","*","*","C","a","t","e","g","o","r","y",":"," ","*","*">> }

Texts == ComposedTexts \cup PickedTexts

TypeLabels ==
  SafetyLevelValues \cup { <<"U","n","s","a","f","e">>, <<"G","e","n","e","r","a","l","l","y"," ","S","a","f","e">>, <<"d","a","n","g","e","r","o","u","s">>, <<"T","o","x","i","c">>, <<>> }

Optional(key, v) == IF v = Undefined THEN <<>> ELSE <<Member(key, v)>>

Structured(type, title, explanation, recommendations) ==
  JObj(Optional(<<"t","y","p","e">>, type) \o Optional(<<"t","i","t","l","e">>, title)
       \o Optional(<<"e","x","p","l","a","n","a","t","i","o","n">>, explanation)
       \o Optional(<<"r","e","c","o","m","m","e","n","d","a","t","i","o","n","s">>, recommendations))

\* title, explanation and recommendations: all present, all absent, all
\* empty, a mix, and values that are no strings
StructuredContents ==
  { <<JStr(<<"T">>), JStr(<<"E">>), JArr(<<JStr(<<"x">>)>>)>>,
    <<Undefined, Undefined, Undefined>>,
    <<JStr(<<>>), JStr(<<>>), JArr(<<>>)>>,
    <<JStr(<<"T">>), JNull, JArr(<<>>)>>,
    <<JBool(TRUE), JArr(<<>>), JArr(<<>>)>> }

StructuredResults ==
  {Structured(t, c[1], c[2], c[3]) :
     t \in {JStr(l) : l \in TypeLabels} \cup {Undefined, JNull, JNum(5)},
     c \in StructuredContents}

ResultValues ==
  StructuredResults \cup {JStr(t) : t \in Texts}
  \cup {JNull, JNum(5), JBool(TRUE), JArr(<<>>), JArr(<<JNum(5)>>)}

ErrorValues == {JStr(<<"b","o","o","m">>), JStr(<<>>), JNull, JNum(1)}

SampleResults ==
  {Structured(JStr(SafetyLevel.MILD), JStr(<<"T">>), JStr(<<"E">>), JArr(<<>>)),
   JStr(<<"S","a","f","e"," ","t","o"," ","m","i","x",".">>)}

Wrappers ==
  {JObj(<<Member(<<"r","e","s","u","l","t">>, r)>>) : r \in ResultValues}
  \cup {JObj(<<Member(<<"e","r","r","o","r">>, e), Member(<<"r","e","s","u","l","t">>, r)>>) :
          e \in ErrorValues, r \in SampleResults}
  \cup {JObj(<<Member(<<"e","r","r","o","r">>, e)>>) : e \in ErrorValues}
  \cup {JObj(<<>>), JNull, JNum(5)}

----------------------------------------------------------------------------
(* Spec: one invocation of checkReaction, step by step                     *)

AppIdle ==
  /\ chem1 = <<>> /\ chem2 = <<>> /\ result = NoResult /\ history = <<>>
  /\ isLoading = FALSE /\ error = "" /\ inflight = {} /\ started = 0
  /\ completed = <<>>

PipeIdle ==
  /\ pc = "idle" /\ input1 = <<>> /\ input2 = <<>> /\ fetches = 0
  /\ ruleLookups = 0 /\ promise = "none" /\ returned = NoResult /\ payload = NoReply

Init == build \in Builds /\ clock = 0 /\ PipeIdle /\ AppIdle

\* the promise settles and the invocation is over
Finish(settled) ==
  /\ pc' = "done"
  /\ promise' = settled.promise
  /\ returned' = settled.value

\* checkReaction is called and runs up to its return or its first await
Call(in1, in2) ==
  /\ pc = "idle"
  /\ input1' = in1 /\ input2' = in2
  /\ LET c1 == normalizeInput(in1)
         c2 == normalizeInput(in2)
         rule == IF ConsultsRules(c1, c2) THEN FindRule(c1, c2) ELSE 0
     IN /\ ruleLookups' = IF ConsultsRules(c1, c2) THEN 1 ELSE 0
        /\ IF IsSameSubstance(c1, c2) \/ rule # 0
           THEN /\ Finish(checkReaction(build, in1, in2, NoReply, clock))
                /\ fetches' = 0
           ELSE /\ pc' = "fetch" /\ promise' = "pending" /\ returned' = NoResult
                /\ fetches' = fetches + 1
  /\ UNCHANGED <<build, payload, clock, appVars>>

\* FetchRejects with a retry: the failed request is issued again
FetchRejectsAndRetries ==
  /\ pc = "fetch"
  /\ fetches < 3
  /\ fetches' = fetches + 1
  /\ UNCHANGED <<build, pc, input1, input2, ruleLookups, promise, returned, payload,
                 clock, appVars>>

\* await fetch(..) rejects: transport failure
FetchRejects ==
  /\ pc = "fetch"
  /\ payload' = NetworkError
  /\ Finish(Settle(Attempt(build, NetworkError, input1, input2, clock), input1, input2, clock))
  /\ UNCHANGED <<build, input1, input2, fetches, ruleLookups, clock, appVars>>

\* await fetch(..) resolves with a response whose ok is FALSE
FetchResolvesNotOk ==
  /\ pc = "fetch"
  /\ payload' = HttpError
  /\ Finish(Settle(Attempt(build, HttpError, input1, input2, clock), input1, input2, clock))
  /\ UNCHANGED <<build, input1, input2, fetches, ruleLookups, clock, appVars>>

\* await fetch(..) resolves with an ok response: on to await response.json()
FetchResolvesOk ==
  /\ pc = "fetch"
  /\ pc' = "json"
  /\ UNCHANGED <<build, input1, input2, fetches, ruleLookups, promise, returned,
                 payload, clock, appVars>>

\* await response.json() rejects: the body is no JSON
JsonRejects ==
  /\ pc = "json"
  /\ payload' = BadBody
  /\ Finish(Settle(Attempt(build, BadBody, input1, input2, clock), input1, input2, clock))
  /\ UNCHANGED <<build, input1, input2, fetches, ruleLookups, clock, appVars>>

\* await response.json() resolves with wrapper w
JsonResolves(w) ==
  /\ pc = "json"
  /\ payload' = Body(w)
  /\ Finish(Settle(Attempt(build, Body(w), input1, input2, clock), input1, input2, clock))
  /\ UNCHANGED <<build, input1, input2, fetches, ruleLookups, clock, appVars>>

\* time passes while the invocation awaits the backend
Tick ==
  /\ pc \in {"fetch", "json"}
  /\ clock < MaxClock
  /\ clock' = clock + 1
  /\ UNCHANGED <<build, pipeVars, appVars>>

Next ==
  \/ \E in1 \in RawInputs, in2 \in RawInputs : Call(in1, in2)
  \/ FetchRejects
  \/ FetchResolvesNotOk
  \/ FetchResolvesOk
  \/ JsonRejects
  \/ \E w \in Wrappers : JsonResolves(w)
  \/ Tick

Spec == Init /\ [][Next]_vars

----------------------------------------------------------------------------
(* SpecApp: handleCheck and the history, with checks that may overlap      *)

AppInputs == { <<" "," ">>, <<"x","y","z">> }

AppReplies == { NetworkError, Body(JObj(<<Member(<<"r","e","s","u","l","t">>, JStr(<<"S","a","f","e"," ","t","o"," ","m","i","x",".">>))>>)) }

HistoryKeep == 3

\* PushHistory that trims nothing
PushUntrimmed(prev, res) == <<res>> \o prev

\* setHistory(prev => [res, ...prev.slice(0, 3)])
PushHistory(prev, res) == <<res>> \o Slice(prev, HistoryKeep)

\* the guard of handleCheck: !chem1.trim() || !chem2.trim()
MissingInput(a, b) == trim(a) = <<>> \/ trim(b) = <<>>

SetChem1(text) ==
  /\ chem1 # text
  /\ chem1' = text
  /\ UNCHANGED <<build, pipeVars, clock, chem2, result, history, isLoading, error,
                 inflight, started, completed>>

SetChem2(text) ==
  /\ chem2 # text
  /\ chem2' = text
  /\ UNCHANGED <<build, pipeVars, clock, chem1, result, history, isLoading, error,
                 inflight, started, completed>>

\* handleCheck with an input missing: the error is shown and nothing else
HandleCheckRejected ==
  /\ MissingInput(chem1, chem2)
  /\ error' = "Provide two chemicals."
  /\ UNCHANGED <<build, pipeVars, clock, chem1, chem2, result, history, isLoading,
                 inflight, started, completed>>

\* handleCheck up to `await checkReaction(chem1, chem2)`
HandleCheck ==
  /\ ~MissingInput(chem1, chem2)
  /\ started < MaxChecks
  /\ Cardinality(inflight) < MaxInFlight
  /\ error' = ""
  /\ isLoading' = TRUE
  /\ started' = started + 1
  /\ inflight' = inflight \cup {[id |-> started + 1, input1 |-> chem1, input2 |-> chem2]}
  /\ UNCHANGED <<build, pipeVars, clock, chem1, chem2, result, history, completed>>

\* handleCheck from the await on, for one of the pending invocations
CheckSettles(call, reply) ==
  /\ call \in inflight
  /\ inflight' = inflight \ {call}
  /\ isLoading' = FALSE
  /\ LET settled == checkReaction(build, call.input1, call.input2, reply, clock)
     IN IF settled.promise = "fulfilled"
        THEN /\ result' = settled.value
             /\ history' = PushHistory(history, settled.value)
             /\ completed' = Append(completed, settled.value)
             /\ error' = error
        ELSE /\ error' = "Safety check failed."
             /\ UNCHANGED <<result, history, completed>>
  /\ UNCHANGED <<build, pipeVars, clock, chem1, chem2, started>>

NextApp ==
  \/ \E text \in AppInputs : SetChem1(text)
  \/ \E text \in AppInputs : SetChem2(text)
  \/ HandleCheckRejected
  \/ HandleCheck
  \/ \E call \in inflight, reply \in AppReplies : CheckSettles(call, reply)

SpecApp == Init /\ [][NextApp]_vars

----------------------------------------------------------------------------
(* Properties                                                              *)

Identity1 == normalizeInput(input1)
Identity2 == normalizeInput(input2)
BothRecognized == Identity1 # NoChemical /\ Identity2 # NoChemical
SameIdentity == BothRecognized /\ Identity1.id = Identity2.id
Fallback == FallbackResult(input1, input2, returned.timestamp)

\* the result field of the wrapper the backend answered with
AnsweredResult == Get(payload.wrapper, <<"r","e","s","u","l","t">>)

\* the backend answered with a JSON object that carries no error member
AnsweredWithoutError ==
  /\ payload.kind = "body"
  /\ payload.wrapper.k = "object"
  /\ \A i \in 1..Len(payload.wrapper.f) : payload.wrapper.f[i].key # <<"e","r","r","o","r">>

IsText(v) == v.k = "string" /\ v.s # <<>>

\* C1: checkReaction never raises: whatever the inputs and whatever the
\* backend does, the promise is never rejected, and once the invocation is
\* over it is fulfilled with a result that carries the two raw inputs.
C1_NeverRejects ==
  /\ promise # "rejected"
  /\ pc = "done" =>
       /\ promise = "fulfilled"
       /\ returned # NoResult
       /\ returned.chemicals = <<input1, input2>>

\* an invocation is over whose wrapper was null, so that reading wrapper.error threw
C1_Witness == pc = "done" /\ payload = Body(JNull) /\ promise = "fulfilled"

\* C2: two inputs that normalize to the same identity give type Safe with
\* the title "Same Substance", whatever the rule table holds for that pair,
\* and the backend is not queried.
C2_SameSubstanceFirst ==
  (pc # "idle" /\ SameIdentity) =>
    /\ pc = "done"
    /\ returned.type = SafetyLevel.SAFE
    /\ returned.title = JStr(SameSubstanceTitle)
    /\ fetches = 0

\* the same identity typed in two ways, with a rule listed for that pair of ids
C2_Witness ==
  /\ pc = "done" /\ SameIdentity /\ input1 # input2
  /\ FindRule(Identity1, Identity2) # 0
  /\ returned.title = JStr(SameSubstanceTitle)

\* C3: one invocation scans the rule table only when both inputs are
\* recognized and distinct, queries the backend exactly once when an input is
\* unrecognized or the scan misses and not at all otherwise, and never
\* queries it a second time.
C3_PathSelection ==
  /\ fetches <= 1
  /\ ruleLookups <= 1
  /\ pc # "idle" =>
       /\ ruleLookups = 1 <=> (BothRecognized /\ Identity1.id # Identity2.id)
       /\ fetches = 1 <=> \/ ~BothRecognized
                          \/ /\ Identity1.id # Identity2.id
                             /\ FindRule(Identity1, Identity2) = 0

\* the scan missed, the backend was queried and failed, and it was queried once
C3_Witness ==
  /\ pc = "done" /\ payload = NetworkError
  /\ ruleLookups = 1 /\ fetches = 1
  /\ returned = Fallback

\* the backend call failed: transport, HTTP status, or a string error member
BackendFailed ==
  \/ payload \in {NetworkError, HttpError}
  \/ /\ payload.kind = "body"
     /\ payload.wrapper.k = "object"
     /\ Get(payload.wrapper, <<"e","r","r","o","r">>).k = "string"

\* C4: every backend failure (transport error, non-success status, or a
\* response with a string error field of any value) yields the fixed
\* fallback with the two raw inputs.
C4_FailureYieldsFallback == (pc = "done" /\ BackendFailed) => returned = Fallback

\* the result field is a well-formed structured object
AnsweredStructured ==
  /\ AnsweredWithoutError
  /\ AnsweredResult.k = "object"
  /\ Get(AnsweredResult, <<"t","y","p","e">>).k = "string"
  /\ Get(AnsweredResult, <<"t","y","p","e">>).s \in SafetyLevelValues
  /\ IsText(Get(AnsweredResult, <<"t","i","t","l","e">>))
  /\ IsText(Get(AnsweredResult, <<"e","x","p","l","a","n","a","t","i","o","n">>))
  /\ Get(AnsweredResult, <<"r","e","c","o","m","m","e","n","d","a","t","i","o","n","s">>).k = "array"

\* C5: a well-formed structured result object is returned unchanged.
C5_StructuredUsedDirectly ==
  (pc = "done" /\ AnsweredStructured) =>
    /\ returned.type = Get(AnsweredResult, <<"t","y","p","e">>).s
    /\ returned.title = Get(AnsweredResult, <<"t","i","t","l","e">>)
    /\ returned.explanation = Get(AnsweredResult, <<"e","x","p","l","a","n","a","t","i","o","n">>)
    /\ returned.recommendations = Get(AnsweredResult, <<"r","e","c","o","m","m","e","n","d","a","t","i","o","n","s">>)

\* C6: a string result of any content is interpreted and never ends in the
\* "Analysis Failed" fallback.
C6_StringNeverFails ==
  (pc = "done" /\ AnsweredWithoutError /\ AnsweredResult.k = "string") => returned # Fallback

\* C7: every returned result has a non-empty title, a non-empty explanation
\* and a type among the six safety levels.
C7_ResultInvariant ==
  pc = "done" =>
    /\ returned.type \in SafetyLevelValues
    /\ IsText(returned.title)
    /\ IsText(returned.explanation)

HistoryLimit == HistoryKeep + 1

\* the last n entries of the completion log, newest first
NewestFirst(log, n) ==
  LET m == IF Len(log) < n THEN Len(log) ELSE n
  IN [i \in 1..m |-> log[Len(log) - i + 1]]

\* a handleCheck that was rejected for an empty input
RejectedStep == error' = "Provide two chemicals." /\ UNCHANGED <<started, inflight>>

\* C8: the history is the min(n, 4) most recently completed results, newest
\* first, also when checks overlap, and a check rejected for an empty input
\* leaves it unchanged.
C8_HistoryBounded ==
  /\ [](history = NewestFirst(completed, HistoryLimit))
  /\ [](Len(history) <= HistoryLimit)
  /\ [][RejectedStep => history' = history]_vars

\* five checks completed while the first one started is still pending
C8_Witness ==
  /\ Len(completed) = 5
  /\ Len(history) = 4
  /\ \E call \in inflight : call.id = 1
  /\ completed[5] # completed[4]
  /\ error = "Provide two chemicals."

\* the markdown text that was mined, when the result was a string that is no JSON
MinedText == AnsweredResult.s
WasMined ==
  /\ pc = "done" /\ AnsweredWithoutError
  /\ AnsweredResult.k = "string" /\ ~JSONparse(AnsweredResult.s).ok

\* the line is the header and nothing more
RepeatsHeader(clean) ==
  LET bare == trim(SelectSeq(toLowerCase(clean), LAMBDA c : c \notin {"*", ":"}))
  IN bare \in { <<"p","r","e","c","a","u","t","i","o","n","s">>, <<"s","a","f","e","t","y"," ","c","o","n","s","i","d","e","r","a","t","i","o","n","s">>, <<"s","a","f","e","t","y"," ","p","r","e","c","a","u","t","i","o","n","s">> }

LinesFromHeader == splitLines(From(MinedText, HeaderIndex(MinedText)))

\* C9: a line after the header that contains the word "precautions"
\* without being the header is retained among the recommendations (it is one
\* of the first five lines after the header).
C9_PrecautionLineRetained ==
  (WasMined /\ HeaderIndex(MinedText) > 0) =>
    \A i \in 2..Len(LinesFromHeader) :
      LET clean == trim(StripMarker(LinesFromHeader[i]))
      IN (i <= 6 /\ clean # <<>> /\ ~RepeatsHeader(clean)) =>
           \E j \in 1..Len(returned.recommendations.a) :
             returned.recommendations.a[j] = JStr(clean)

HazardWorded(text) == \E w \in HazardWords : includes(toLowerCase(text), w)

\* the type label of the data the backend sent, "" when there is none
LabelOf(data) ==
  IF data.k = "object" /\ Get(data, <<"t","y","p","e">>).k = "string" THEN Get(data, <<"t","y","p","e">>).s
  ELSE <<>>

\* the text that decides the classification
DecidingText ==
  IF AnsweredResult.k # "string" THEN LabelOf(AnsweredResult)
  ELSE IF JSONparse(AnsweredResult.s).ok THEN LabelOf(JSONparse(AnsweredResult.s).v)
  ELSE AnsweredResult.s

\* C10: a verdict whose deciding text contains "unsafe", "danger", "toxic"
\* or "explode" is never reported as Safe.
C10_HazardNeverSafe ==
  (pc = "done" /\ payload.kind = "body" /\ payload.wrapper.k = "object"
   /\ HazardWorded(DecidingText))
    => returned.type # SafetyLevel.SAFE

====
